---- MODULE Spec2Model ----
(***************************************************************************)
(* A model of flask_log_api.py: the line parser, the in-memory catalog     *)
(* (LogManager) with its loader, and the three query handlers.             *)
(*                                                                         *)
(* Text is modelled as sequences of one-character strings, so that split,  *)
(* strip, strptime, strftime and lower are computed character by character *)
(* as the Python library computes them.                                    *)
(***************************************************************************)
EXTENDS Integers, Sequences, FiniteSets, TLC

VARIABLES
    tree,           \* environment: which directory tree is on disk (an index of TreeAt)
    entries,        \* LogManager.entries, the published list
    index_by_id,    \* LogManager.index_by_id, the published dict
    load_pc,        \* where the thread running load_logs stands
    build,          \* load_logs' locals of its latest run: the list, the files walked, the tree read
    prev,           \* history: the tree and the ids of the generation the latest load replaces
    stats_pc,       \* where the thread running LogManager.stats stands
    stats_total,    \* stats' local `total`
    stats_levels,   \* stats' local `levels`
    resp,           \* what a handler returned to the client; None when nothing is outstanding
    line,           \* parser harness: the raw line handed to parse_line
    parsed          \* parser harness: what parse_line returned

vars == <<tree, entries, index_by_id, load_pc, build, prev,
          stats_pc, stats_total, stats_levels, resp, line, parsed>>

\* Python's None: where an object is expected, where a str is and where a datetime is
None == [none |-> TRUE]
NoStr == <<"None">>
NoTime == <<0>>

-----------------------------------------------------------------------------
(* Characters and the str methods the program uses                         *)

TAB == "\t"

Digits == {"0", "1", "2", "3", "4", "5", "6", "7", "8", "9"}

\* str.isspace for the characters of the model's alphabet
IsSpace(c) == c \in {" ", "\t", "\n", "\r"}

DigitVal(c) ==
    CASE c = "0" -> 0 [] c = "1" -> 1 [] c = "2" -> 2 [] c = "3" -> 3 [] c = "4" -> 4
      [] c = "5" -> 5 [] c = "6" -> 6 [] c = "7" -> 7 [] c = "8" -> 8 [] c = "9" -> 9

DigitChar(n) ==
    CASE n = 0 -> "0" [] n = 1 -> "1" [] n = 2 -> "2" [] n = 3 -> "3" [] n = 4 -> "4"
      [] n = 5 -> "5" [] n = 6 -> "6" [] n = 7 -> "7" [] n = 8 -> "8" [] n = 9 -> "9"

\* the code point order of the characters the model's names and paths use
CharOrd(c) ==
    CASE c = "/" -> 47 [] c = "a" -> 97 [] c = "b" -> 98 [] c = "d" -> 100
      [] c = "x" -> 120 [] c = "y" -> 121 [] OTHER -> 0

\* str.lower, one character
LowerChar(c) ==
    CASE c = "A" -> "a" [] c = "B" -> "b" [] c = "C" -> "c" [] c = "D" -> "d" [] c = "E" -> "e" [] c = "F" -> "f" [] c = "G" -> "g" [] c = "H" -> "h" [] c = "I" -> "i" [] c = "J" -> "j" [] c = "K" -> "k" [] c = "L" -> "l" [] c = "M" -> "m"
      [] c = "N" -> "n" [] c = "O" -> "o" [] c = "P" -> "p" [] c = "Q" -> "q" [] c = "R" -> "r" [] c = "S" -> "s" [] c = "T" -> "t" [] c = "U" -> "u" [] c = "V" -> "v" [] c = "W" -> "w" [] c = "X" -> "x" [] c = "Y" -> "y" [] c = "Z" -> "z"
      [] OTHER -> c

\* str.lower
Lower(s) == [i \in 1..Len(s) |-> LowerChar(s[i])]

RECURSIVE LStrip(_)
LStrip(s) == IF s # <<>> /\ IsSpace(Head(s)) THEN LStrip(Tail(s)) ELSE s

RECURSIVE RStrip(_)
RStrip(s) ==
    IF s # <<>> /\ IsSpace(s[Len(s)]) THEN RStrip(SubSeq(s, 1, Len(s) - 1)) ELSE s

\* str.strip()
Strip(s) == RStrip(LStrip(s))

\* the position of the first sep in s at or after i, 0 when there is none
RECURSIVE Find(_, _, _)
Find(s, sep, i) ==
    IF i > Len(s) THEN 0 ELSE IF s[i] = sep THEN i ELSE Find(s, sep, i + 1)

\* str.split(sep, maxsplit): at most maxsplit splits, the remainder kept whole
RECURSIVE Split(_, _, _)
Split(s, sep, maxsplit) ==
    LET Cut(k) ==
            IF maxsplit = 0 \/ k = 0 THEN <<s>>
            ELSE <<SubSeq(s, 1, k - 1)>> \o Split(SubSeq(s, k + 1, Len(s)), sep, maxsplit - 1)
    IN  Cut(Find(s, sep, 1))

\* str(n) for n >= 0
RECURSIVE IntStr(_)
IntStr(n) == IF n < 10 THEN <<DigitChar(n)>> ELSE IntStr(n \div 10) \o <<DigitChar(n % 10)>>

\* the %02d of strftime
Pad2(n) == <<DigitChar(n \div 10), DigitChar(n % 10)>>

-----------------------------------------------------------------------------
(* datetime.strptime / strftime with TIMESTAMP_FORMAT = "%Y-%m-%d %H:%M:%S" *)

\* the outcome "raises ValueError"
ValueError == <<>>
NoMatch == <<-1, 0>>

At(s, i) == IF i >= 1 /\ i <= Len(s) THEN s[i] ELSE ""

D19 == Digits \ {"0"}

\* each directive's regular expression of _strptime, alternatives in its order;
\* <<value, next position>> or NoMatch
MatchY(s, i) ==
    IF \A k \in 0..3 : At(s, i + k) \in Digits
    THEN <<DigitVal(s[i]) * 1000 + DigitVal(s[i + 1]) * 100
            + DigitVal(s[i + 2]) * 10 + DigitVal(s[i + 3]), i + 4>>
    ELSE NoMatch

\* 1[0-2]|0[1-9]|[1-9]
MatchMonth(s, i) ==
    IF At(s, i) = "1" /\ At(s, i + 1) \in {"0", "1", "2"}
        THEN <<10 + DigitVal(s[i + 1]), i + 2>>
    ELSE IF At(s, i) = "0" /\ At(s, i + 1) \in D19 THEN <<DigitVal(s[i + 1]), i + 2>>
    ELSE IF At(s, i) \in D19 THEN <<DigitVal(s[i]), i + 1>>
    ELSE NoMatch

\* 3[0-1]|[1-2]\d|0[1-9]|[1-9]| [1-9]
MatchDay(s, i) ==
    IF At(s, i) = "3" /\ At(s, i + 1) \in {"0", "1"} THEN <<30 + DigitVal(s[i + 1]), i + 2>>
    ELSE IF At(s, i) \in {"1", "2"} /\ At(s, i + 1) \in Digits
        THEN <<DigitVal(s[i]) * 10 + DigitVal(s[i + 1]), i + 2>>
    ELSE IF At(s, i) = "0" /\ At(s, i + 1) \in D19 THEN <<DigitVal(s[i + 1]), i + 2>>
    ELSE IF At(s, i) \in D19 THEN <<DigitVal(s[i]), i + 1>>
    ELSE IF At(s, i) = " " /\ At(s, i + 1) \in D19 THEN <<DigitVal(s[i + 1]), i + 2>>
    ELSE NoMatch

\* 2[0-3]|[0-1]\d|\d
MatchHour(s, i) ==
    IF At(s, i) = "2" /\ At(s, i + 1) \in {"0", "1", "2", "3"}
        THEN <<20 + DigitVal(s[i + 1]), i + 2>>
    ELSE IF At(s, i) \in {"0", "1"} /\ At(s, i + 1) \in Digits
        THEN <<DigitVal(s[i]) * 10 + DigitVal(s[i + 1]), i + 2>>
    ELSE IF At(s, i) \in Digits THEN <<DigitVal(s[i]), i + 1>>
    ELSE NoMatch

\* [0-5]\d|\d
MatchMinute(s, i) ==
    IF At(s, i) \in {"0", "1", "2", "3", "4", "5"} /\ At(s, i + 1) \in Digits
        THEN <<DigitVal(s[i]) * 10 + DigitVal(s[i + 1]), i + 2>>
    ELSE IF At(s, i) \in Digits THEN <<DigitVal(s[i]), i + 1>>
    ELSE NoMatch

\* 6[0-1]|[0-5]\d|\d
MatchSecond(s, i) ==
    IF At(s, i) = "6" /\ At(s, i + 1) \in {"0", "1"} THEN <<60 + DigitVal(s[i + 1]), i + 2>>
    ELSE MatchMinute(s, i)

\* a literal character of the format
MatchLit(s, i, c) == IF At(s, i) = c THEN i + 1 ELSE 0

\* the format's blank is \s+ in the regular expression
RECURSIVE SkipSpace(_, _)
SkipSpace(s, i) == IF IsSpace(At(s, i)) THEN SkipSpace(s, i + 1) ELSE i

MatchSpaces(s, i) == IF IsSpace(At(s, i)) THEN SkipSpace(s, i) ELSE 0

IsLeap(y) == (y % 4 = 0 /\ y % 100 # 0) \/ y % 400 = 0

DaysInMonth(y, m) ==
    IF m = 2 THEN (IF IsLeap(y) THEN 29 ELSE 28)
    ELSE IF m \in {4, 6, 9, 11} THEN 30 ELSE 31

\* TIMESTAMP_FORMAT = "%Y-%m-%d %H:%M:%S", directive by directive
TIMESTAMP_FORMAT == <<"%Y", "-", "%m", "-", "%d", " ", "%H", ":", "%M", ":", "%S">>

\* one item of the format matched at position i: <<value, next position>> or NoMatch
MatchItem(s, item, i) ==
    CASE item = "%Y" -> MatchY(s, i)
      [] item = "%m" -> MatchMonth(s, i)
      [] item = "%d" -> MatchDay(s, i)
      [] item = "%H" -> MatchHour(s, i)
      [] item = "%M" -> MatchMinute(s, i)
      [] item = "%S" -> MatchSecond(s, i)
      [] item = " " -> (IF MatchSpaces(s, i) = 0 THEN NoMatch ELSE <<0, MatchSpaces(s, i)>>)
      [] OTHER -> (IF MatchLit(s, i, item) = 0 THEN NoMatch ELSE <<0, i + 1>>)

\* the datetime(...) call that ends _strptime_datetime: it rejects year 0, a
\* second of 60 or 61 and a day the month does not have
MakeDatetime(v) ==
    IF v[1] < 1 \/ v[6] > 59 \/ v[3] > DaysInMonth(v[1], v[2]) THEN ValueError ELSE v

\* the match of the format's items k.. from position i, vals the fields so far.
\* A directive's shorter alternative can only be followed by a digit where the
\* format has a separator, so taking the first alternative that matches is what
\* the backtracking match finds.
RECURSIVE StrpFrom(_, _, _, _)
StrpFrom(s, k, i, vals) ==
    IF k > Len(TIMESTAMP_FORMAT)
    THEN IF i # Len(s) + 1 THEN ValueError          \* unconverted data remains
         ELSE MakeDatetime(vals)
    ELSE LET Advance(r) ==
                 IF r = NoMatch THEN ValueError      \* does not match format
                 ELSE StrpFrom(s, k + 1, r[2],
                               IF Len(TIMESTAMP_FORMAT[k]) = 2 THEN Append(vals, r[1]) ELSE vals)
         IN  Advance(MatchItem(s, TIMESTAMP_FORMAT[k], i))

\* datetime.strptime(s, TIMESTAMP_FORMAT): <<Y, m, d, H, M, S>> or ValueError
StrpTime(s) == StrpFrom(s, 1, 1, <<>>)

\* datetime.strftime(TIMESTAMP_FORMAT); %Y is the year's decimal digits
StrfTime(t) ==
    IntStr(t[1]) \o <<"-">> \o Pad2(t[2]) \o <<"-">> \o Pad2(t[3]) \o <<" ">>
        \o Pad2(t[4]) \o <<":">> \o Pad2(t[5]) \o <<":">> \o Pad2(t[6])

\* datetime's order
RECURSIVE TupleLess(_, _)
TupleLess(a, b) ==
    IF a = <<>> \/ b = <<>> THEN FALSE
    ELSE IF Head(a) # Head(b) THEN Head(a) < Head(b)
    ELSE TupleLess(Tail(a), Tail(b))

TimeLE(a, b) == a = b \/ TupleLess(a, b)

-----------------------------------------------------------------------------
(* LogManager.parse_line                                                   *)

\* parse_line(line): None, or the four parsed fields
parse_line(l) ==
    LET Fields(parts) ==
            LET Result(timestamp) ==
                    IF timestamp = ValueError THEN None
                    ELSE [timestamp |-> timestamp, level |-> Strip(parts[2]),
                          component |-> Strip(parts[3]), message |-> Strip(parts[4])]
            IN  IF Len(parts) < 4 THEN None ELSE Result(StrpTime(Strip(parts[1])))
    IN  Fields(Split(l, TAB, 3))

-----------------------------------------------------------------------------
(* The directory trees the environment can put under LOG_DIR               *)

LOG_DIR == <<"d">>

\* the timestamps the files use
TsNoon == <<"2", "0", "2", "5", "-", "0", "5", "-", "0", "7", " ", "1", "0", ":", "0", "0", ":", "0", "0">>
TsMorning == <<"2", "0", "2", "5", "-", "0", "5", "-", "0", "7", " ", "0", "9", ":", "0", "0", ":", "0", "0">>
TsNextDay == <<"2", "0", "2", "5", "-", "0", "5", "-", "0", "8", " ", "0", "0", ":", "0", "0", ":", "0", "0">>

MkLine(ts, level, component, message) ==
    ts \o <<TAB>> \o level \o <<TAB>> \o component \o <<TAB>> \o message

\* a file reads without error
NoFail == -1

\* a file: its directory, its name, its lines, and how many lines a read
\* delivers before it raises (0: open raises; NoFail: none does)
File(dir, name, lines, fail) == [dir |-> dir, name |-> name, lines |-> lines, fail |-> fail]

DirA == <<"d", "/", "a">>
DirB == <<"d", "/", "b">>

TreeAt(i) ==
    CASE i = 0 -> [isdir |-> FALSE, files |-> {}]
      [] i = 1 -> [isdir |-> TRUE, files |-> {
            File(DirA, <<"x">>, <<MkLine(TsNoon, <<"I", "N", "F", "O">>, <<"A", "u", "t", "h">>, <<"i", "n">>)>>, NoFail),
            File(DirB, <<"x">>, <<MkLine(TsNoon, <<"E", "R", "R", "O", "R">>, <<"D", "b">>, <<"d", "o", "w", "n">>)>>, NoFail)}]
      [] i = 2 -> [isdir |-> TRUE, files |-> {
            File(LOG_DIR, <<"x">>, <<MkLine(TsNextDay, <<"i", "n", "f", "o">>, <<"A", "u", "t", "h">>, <<"l", "a", "t", "e">>),
                                  MkLine(TsNoon, <<"I", "N", "F", "O">>, <<"a", "u", "t", "h">>, <<"a", "\t", "b", " ">>)>>, NoFail),
            File(LOG_DIR, <<"y">>, <<<<" ", " ">>, <<"n", "o", "t", " ", "a", " ", "l", "o", "g", " ", "l", "i", "n", "e">>,
                                  MkLine(TsNoon, <<>>, <<"D", "b">>, <<"m">>)>>, NoFail)}]
      [] i = 3 -> [isdir |-> TRUE, files |-> {
            File(DirA, <<"x">>, <<MkLine(TsMorning, <<"W", "A", "R", "N">>, <<"D", "b">>, <<"s", "l", "o", "w">>),
                               MkLine(TsNoon, <<"W", "A", "R", "N">>, <<"D", "b">>, <<"s", "l", "o", "w", "e", "r">>)>>, 1),
            File(DirA, <<"y">>, <<MkLine(TsNoon, <<"I", "N", "F", "O">>, <<"A", "u", "t", "h">>, <<"i", "n">>)>>, NoFail)}]
      [] i = 4 -> [isdir |-> TRUE, files |-> {
            File(DirA, <<"x">>, <<MkLine(TsNoon, <<"I", "N", "F", "O">>, <<"A", "u", "t", "h">>, <<"i", "n">>)>>, 0),
            File(DirB, <<"y">>, <<MkLine(TsMorning, <<"I", "N", "F", "O">>, <<"A", "u", "t", "h">>, <<"o", "u", "t">>)>>, NoFail)}]
      [] i = 5 -> [isdir |-> TRUE, files |-> {
            File(LOG_DIR, <<"x">>, <<MkLine(<<"2", "0", "2", "5", "-", "5", "-", "7", " ", "9", ":", "0", ":", "0">>, <<" ", "I", "n", "f", "o", " ">>, <<" ", "A", "u", "t", "h">>, <<"i", "n">>),
                                  MkLine(TsMorning, <<"I", "N", "F", "O">>, <<"A", "u", "t", "h">>, <<"i", "n">>)>>, NoFail),
            File(DirB, <<"x">>, <<MkLine(TsMorning, <<"I", "N", "F", "O">>, <<"A", "u", "t", "h">>, <<"i", "n">>)>>, NoFail)}]
      [] OTHER -> [isdir |-> TRUE, files |-> {}]

\* the trees 0..LastTree are the ones the environment chooses among
LastTree == 4
Trees == 0..LastTree

-----------------------------------------------------------------------------
(* LogManager.load_logs                                                    *)

\* lexicographic order of two strings by code point, as sorted() compares names
RECURSIVE StrLess(_, _)
StrLess(a, b) ==
    IF b = <<>> THEN FALSE
    ELSE IF a = <<>> THEN TRUE
    ELSE IF Head(a) # Head(b) THEN CharOrd(Head(a)) < CharOrd(Head(b))
    ELSE StrLess(Tail(a), Tail(b))

\* sorted(files): the names of a set in ascending order
RECURSIVE Sorted(_)
Sorted(names) ==
    IF names = {} THEN <<>>
    ELSE LET Least(n) == <<n>> \o Sorted(names \ {n})
         IN  Least(CHOOSE n \in names : \A m \in names \ {n} : StrLess(n, m))

\* os.path.join(root, fname)
PathJoin(root, fname) == root \o <<"/">> \o fname

\* the sequences that list the members of a set once each
Orderings(S) == {o \in [1..Cardinality(S) -> S] : \A i, j \in 1..Cardinality(S) : o[i] = o[j] => i = j}

\* The orders in which os.walk can yield the directories under LOG_DIR: the top
\* first, then its subdirectories in the order os.scandir lists them, which the
\* operating system chooses.
WalkOrders(t) == {<<LOG_DIR>> \o o : o \in Orderings({f.dir : f \in t.files} \ {LOG_DIR})}

\* generate_id: the digest of the colon-joined base string; SHA-1 is taken to
\* be injective, a digest stands for the string it digests
generate_id(file_path, line_no, timestamp, level, component) ==
    <<"sha1">> \o file_path \o <<":">> \o IntStr(line_no) \o <<":">> \o StrfTime(timestamp)
        \o <<":">> \o level \o <<":">> \o component

LogEntry(id_, timestamp, level, component, message, file, line_no) ==
    [id |-> id_, timestamp |-> timestamp, level |-> level, component |-> component,
     message |-> message, file |-> file, line_no |-> line_no]

\* the body of `for i, line in enumerate(fh, start=1)` for lines i..last
RECURSIVE ReadLines(_, _, _, _)
ReadLines(path, lines, i, last) ==
    IF i > last THEN <<>>
    ELSE LET Parsed(p) ==
                 IF p = None THEN <<>>          \* malformed: skipped
                 ELSE <<LogEntry(generate_id(path, i, p.timestamp, p.level, p.component),
                                 p.timestamp, p.level, p.component, p.message, path, i)>>
             Stripped(l) == IF l = <<>> THEN <<>> ELSE Parsed(parse_line(l))
         IN  Stripped(Strip(lines[i])) \o ReadLines(path, lines, i + 1, last)

\* the try block over one file: every entry appended before the read raised
\* stays in the list, the except clause only logs
ReadFile(f) ==
    ReadLines(PathJoin(f.dir, f.name), f.lines, 1,
              IF f.fail = NoFail THEN Len(f.lines) ELSE f.fail)

\* the files of one directory, `for fname in sorted(files)`
RECURSIVE ReadNames(_, _, _)
ReadNames(t, dir, names) ==
    IF names = <<>> THEN <<>>
    ELSE ReadFile(CHOOSE g \in t.files : g.dir = dir /\ g.name = Head(names))
            \o ReadNames(t, dir, Tail(names))

ReadDir(t, dir) == ReadNames(t, dir, Sorted({f.name : f \in {g \in t.files : g.dir = dir}}))

\* `for root, dirs, files in os.walk(self.log_dir)`
RECURSIVE Walk(_, _)
Walk(t, dirs) == IF dirs = <<>> THEN <<>> ELSE ReadDir(t, Head(dirs)) \o Walk(t, Tail(dirs))

\* the paths of the files in the order the walk opens them
RECURSIVE WalkedFiles(_, _)
WalkedFiles(t, dirs) ==
    IF dirs = <<>> THEN <<>>
    ELSE LET Paths(names) == [k \in 1..Len(names) |-> PathJoin(Head(dirs), names[k])]
         IN  Paths(Sorted({f.name : f \in {g \in t.files : g.dir = Head(dirs)}}))
                 \o WalkedFiles(t, Tail(dirs))

\* Insert as an unstable sort would place e: before the elements of equal key
RECURSIVE InsertBeforeEqual(_, _)
InsertBeforeEqual(sorted, e) ==
    IF sorted = <<>> THEN <<e>>
    ELSE IF TupleLess(Head(sorted).timestamp, e.timestamp)
        THEN <<Head(sorted)>> \o InsertBeforeEqual(Tail(sorted), e)
    ELSE <<e>> \o sorted

\* list.sort's place for e in an already sorted list: after every element
\* whose key is not greater (the sort is stable)
RECURSIVE Insert(_, _)
Insert(sorted, e) ==
    IF sorted = <<>> THEN <<e>>
    ELSE IF TimeLE(Head(sorted).timestamp, e.timestamp)
        THEN <<Head(sorted)>> \o Insert(Tail(sorted), e)
    ELSE <<e>> \o sorted

\* entries.sort(key=lambda e: e.timestamp)
RECURSIVE SortByTimestamp(_)
SortByTimestamp(es) ==
    IF es = <<>> THEN <<>>
    ELSE Insert(SortByTimestamp(SubSeq(es, 1, Len(es) - 1)), es[Len(es)])

\* BuildIndex keyed by the wrong attribute, {e.file: e for e in entries}
BuildIndexByFile(es) ==
    [f \in {es[k].file : k \in 1..Len(es)} |->
        es[CHOOSE k \in 1..Len(es) : es[k].file = f /\ \A m \in k + 1..Len(es) : es[m].file # f]]

\* {e.id: e for e in entries}: a later entry replaces an earlier one of the same id
BuildIndex(es) ==
    [id \in {es[k].id : k \in 1..Len(es)} |->
        es[CHOOSE k \in 1..Len(es) : es[k].id = id /\ \A m \in k + 1..Len(es) : es[m].id # id]]

EmptyDict == [id \in {} |-> None]

Ids(es) == [k \in 1..Len(es) |-> es[k].id]

NoPrev == [tree |-> -1, ids |-> <<>>]

\* the generation a load that starts now replaces
Replaced == [tree |-> build.tree, ids |-> Ids(entries)]

\* the environment rewrites the directory tree
ChangeTree ==
    /\ \E t \in Trees \ {tree} : tree' = t
    /\ UNCHANGED <<entries, index_by_id, load_pc, build, prev,
                   stats_pc, stats_total, stats_levels, resp, line, parsed>>

\* load_logs, lines 79-82: the directory is missing, self.entries = []
LoadMissingEntries ==
    /\ load_pc = "idle"
    /\ ~TreeAt(tree).isdir
    /\ entries' = <<>>
    /\ build' = [entries |-> <<>>, walked |-> <<>>, tree |-> tree]
    /\ prev' = Replaced
    /\ load_pc' = "missing_index"
    /\ UNCHANGED <<tree, index_by_id, stats_pc, stats_total, stats_levels, resp, line, parsed>>

\* load_logs, lines 83-84: self.index_by_id = {}; return
LoadMissingIndex ==
    /\ load_pc = "missing_index"
    /\ index_by_id' = EmptyDict
    /\ load_pc' = "idle"
    /\ UNCHANGED <<tree, entries, build, prev, stats_pc, stats_total, stats_levels,
                   resp, line, parsed>>

\* load_logs, lines 86-108: the walk over the tree and the sort, into the local
\* list; the tree is taken not to change while it is read
LoadBuild ==
    /\ load_pc = "idle"
    /\ TreeAt(tree).isdir
    /\ \E dirs \in WalkOrders(TreeAt(tree)) :
          build' = [entries |-> SortByTimestamp(Walk(TreeAt(tree), dirs)),
                    walked |-> WalkedFiles(TreeAt(tree), dirs), tree |-> tree]
    /\ prev' = Replaced
    /\ load_pc' = "publish_entries"
    /\ UNCHANGED <<tree, entries, index_by_id, stats_pc, stats_total, stats_levels,
                   resp, line, parsed>>

\* load_logs, line 109: self.entries = entries
PublishEntries ==
    /\ load_pc = "publish_entries"
    /\ entries' = build.entries
    /\ load_pc' = "publish_index"
    /\ UNCHANGED <<tree, index_by_id, build, prev, stats_pc, stats_total, stats_levels,
                   resp, line, parsed>>

\* load_logs, lines 110-111: self.index_by_id = {e.id: e for e in entries}
PublishIndex ==
    /\ load_pc = "publish_index"
    /\ index_by_id' = BuildIndex(build.entries)
    /\ load_pc' = "idle"
    /\ UNCHANGED <<tree, entries, build, prev, stats_pc, stats_total, stats_levels,
                   resp, line, parsed>>

-----------------------------------------------------------------------------
(* LogManager.filter_entries, LogManager.stats and the handlers             *)

DEFAULT_PER_PAGE == 50
MAX_PER_PAGE == 500

\* LogEntry.to_dict
to_dict(e) ==
    [id |-> e.id, timestamp |-> StrfTime(e.timestamp), level |-> e.level,
     component |-> e.component, message |-> e.message, file |-> e.file, line_no |-> e.line_no]

\* `if level:` and `if component:` are false for None and for the empty string
StrTruthy(s) == s # NoStr /\ s # <<>>

\* `if start_time:` and `if end_time:`: a datetime is never false
TimeTruthy(t) == t # NoTime

\* the list comprehension `[e for e in result if ...]` of each supplied filter
KeepLevel(es, level) == SelectSeq(es, LAMBDA e : Lower(e.level) = Lower(level))
KeepComponent(es, component) == SelectSeq(es, LAMBDA e : Lower(e.component) = Lower(component))
KeepFrom(es, start_time) == SelectSeq(es, LAMBDA e : TimeLE(start_time, e.timestamp))
KeepUntil(es, end_time) == SelectSeq(es, LAMBDA e : TimeLE(e.timestamp, end_time))

\* LogManager.filter_entries
filter_entries(es, level, component, start_time, end_time) ==
    LET ByLevel(result) == IF StrTruthy(level) THEN KeepLevel(result, level) ELSE result
        ByComponent(result) ==
            IF StrTruthy(component) THEN KeepComponent(result, component) ELSE result
        ByStart(result) == IF TimeTruthy(start_time) THEN KeepFrom(result, start_time) ELSE result
        ByEnd(result) == IF TimeTruthy(end_time) THEN KeepUntil(result, end_time) ELSE result
    IN  ByEnd(ByStart(ByComponent(ByLevel(es))))

\* Counter with its keys folded to lower case, as the filters compare
CounterFolded(vals) ==
    [k \in {Lower(vals[i]) : i \in 1..Len(vals)} |->
        Cardinality({i \in 1..Len(vals) : Lower(vals[i]) = k})]

\* collections.Counter over one attribute: the keys are the values that occur
Counter(vals) ==
    [k \in {vals[i] : i \in 1..Len(vals)} |-> Cardinality({i \in 1..Len(vals) : vals[i] = k})]

LevelsOf(es) == [i \in 1..Len(es) |-> es[i].level]
ComponentsOf(es) == [i \in 1..Len(es) |-> es[i].component]

\* parse_query_time: None for a missing or empty parameter, ValueError stands
\* for abort(400)
parse_query_time(param) ==
    IF ~StrTruthy(param) THEN NoTime ELSE StrpTime(param)

RECURSIVE DigitsVal(_)
DigitsVal(s) == IF s = <<>> THEN 0 ELSE DigitsVal(SubSeq(s, 1, Len(s) - 1)) * 10 + DigitVal(s[Len(s)])

\* int(s): blanks around, an optional sign, decimal digits; <<>> for ValueError
PyInt(s) ==
    LET Unsigned(ds) ==
            IF ds = <<>> \/ \E i \in 1..Len(ds) : ds[i] \notin Digits THEN <<>>
            ELSE <<DigitsVal(ds)>>
        Negate(v) == IF v = <<>> THEN <<>> ELSE <<0 - v[1]>>
        Signed(t) ==
            IF t # <<>> /\ Head(t) = "-" THEN Negate(Unsigned(Tail(t)))
            ELSE IF t # <<>> /\ Head(t) = "+" THEN Unsigned(Tail(t))
            ELSE Unsigned(t)
    IN  Signed(Strip(s))

BadRequest(args, message) ==
    [kind |-> "logs", args |-> args, status |-> 400,
     body |-> [error |-> "bad_request", message |-> message]]

Min(a, b) == IF a < b THEN a ELSE b

\* Slice with the end taken inclusive, filtered[start:end + 1]
SliceInclusive(s, start, end) == SubSeq(s, start + 1, Min(end + 1, Len(s)))

\* filtered[start:end]
Slice(s, start, end) == SubSeq(s, start + 1, Min(end, Len(s)))

\* get_logs, lines 190-204: filter, count, slice
LogsPage(es, level, component, start_time, end_time, page, per_page) ==
    LET start == (page - 1) * per_page
        end == start + per_page
        Dicts(page_entries) == [k \in 1..Len(page_entries) |-> to_dict(page_entries[k])]
        Response(filtered) ==
            [total |-> Len(filtered), page |-> page, per_page |-> per_page,
             entries |-> Dicts(Slice(filtered, start, end))]
    IN  Response(filter_entries(es, level, component, start_time, end_time))

\* get_logs: args holds request.args.get of each parameter, NoStr when absent
get_logs(es, args) ==
    LET Handle(start_time, end_time, page, per_page) ==
            IF start_time = ValueError THEN BadRequest(args, "Invalid time format")
            ELSE IF end_time = ValueError THEN BadRequest(args, "Invalid time format")
            ELSE IF page = <<>> \/ per_page = <<>>
                THEN BadRequest(args, "page and per_page must be integers")
            ELSE IF page[1] < 1 THEN BadRequest(args, "page must be >= 1")
            ELSE IF per_page[1] < 1 \/ per_page[1] > MAX_PER_PAGE
                THEN BadRequest(args, "per_page must be between 1 and 500")
            ELSE [kind |-> "logs", args |-> args, status |-> 200,
                  body |-> LogsPage(es, args.level, args.component, start_time, end_time,
                                    page[1], per_page[1])]
    IN  Handle(parse_query_time(args.start_time), parse_query_time(args.end_time),
               PyInt(IF args.page = NoStr THEN <<"1">> ELSE args.page),
               PyInt(IF args.per_page = NoStr THEN IntStr(DEFAULT_PER_PAGE) ELSE args.per_page))

\* get_log_by_id: `not entry` is false for every LogEntry, so the 404 is taken
\* exactly when the dict has no such key
get_log_by_id(index, log_id) ==
    IF log_id \in DOMAIN index
    THEN [kind |-> "by_id", log_id |-> log_id, status |-> 200, body |-> to_dict(index[log_id])]
    ELSE [kind |-> "by_id", log_id |-> log_id, status |-> 404,
          body |-> [error |-> "not_found", message |-> "Log entry not found"]]

\* the ids a client asks for: every id some tree yields, and one no tree does
UnknownId == <<"sha1">> \o <<"0", "0", "0", "0">>
RequestIds ==
    UNION {{e.id : e \in {ReadFile(f)[k] : k \in 1..Len(ReadFile(f))}} :
              f \in UNION {TreeAt(t).files : t \in Trees}} \cup {UnknownId}

\* GET /logs/<log_id>
GetLogById ==
    /\ resp = None
    /\ stats_pc = "idle"
    /\ \E log_id \in RequestIds : resp' = get_log_by_id(index_by_id, log_id)
    /\ UNCHANGED <<tree, entries, index_by_id, load_pc, build, prev,
                   stats_pc, stats_total, stats_levels, line, parsed>>

\* GET /logs/stats, stats line 146: total = len(self.entries)
StatsTotal ==
    /\ resp = None
    /\ stats_pc = "idle"
    /\ stats_total' = Len(entries)
    /\ stats_pc' = "levels"
    /\ UNCHANGED <<tree, entries, index_by_id, load_pc, build, prev, stats_levels,
                   resp, line, parsed>>

\* stats line 147: levels = Counter(e.level for e in self.entries)
StatsLevels ==
    /\ stats_pc = "levels"
    /\ stats_levels' = Counter(LevelsOf(entries))
    /\ stats_pc' = "components"
    /\ UNCHANGED <<tree, entries, index_by_id, load_pc, build, prev, stats_total,
                   resp, line, parsed>>

\* stats lines 148-153 and get_stats: the components are counted, the dict returned
StatsComponents ==
    /\ stats_pc = "components"
    /\ resp' = [kind |-> "stats", status |-> 200,
                body |-> [total |-> stats_total, by_level |-> stats_levels,
                          by_component |-> Counter(ComponentsOf(entries))]]
    /\ stats_pc' = "idle"
    /\ stats_total' = 0
    /\ stats_levels' = <<>>
    /\ UNCHANGED <<tree, entries, index_by_id, load_pc, build, prev, line, parsed>>

\* the values of the query parameters a client sends
MaxPage == 3
MaxPerPage == 3
LevelArgs == {NoStr, <<"i", "n", "f", "o">>, <<"E", "R", "R", "O", "R">>, <<>>}
ComponentArgs == {NoStr, <<"A", "U", "T", "H">>, <<>>}
TimeArgs == {NoStr, TsMorning, TsNoon, <<"n", "o", "o", "n">>}
PageArgs == {NoStr, <<"x">>} \cup {IntStr(n) : n \in 0..MaxPage}
PerPageArgs == {NoStr, <<" ", "2", " ">>, IntStr(MAX_PER_PAGE + 1)} \cup {IntStr(n) : n \in 0..MaxPerPage}

\* GET /logs
GetLogs ==
    /\ resp = None
    /\ stats_pc = "idle"
    /\ \E level \in LevelArgs, component \in ComponentArgs, start_time \in TimeArgs,
          end_time \in TimeArgs, page \in PageArgs, per_page \in PerPageArgs :
          resp' = get_logs(entries, [level |-> level, component |-> component,
                                     start_time |-> start_time, end_time |-> end_time,
                                     page |-> page, per_page |-> per_page])
    /\ UNCHANGED <<tree, entries, index_by_id, load_pc, build, prev,
                   stats_pc, stats_total, stats_levels, line, parsed>>

\* the client takes the response
Deliver ==
    /\ resp # None
    /\ resp' = None
    /\ UNCHANGED <<tree, entries, index_by_id, load_pc, build, prev,
                   stats_pc, stats_total, stats_levels, line, parsed>>

-----------------------------------------------------------------------------
(* Specifications                                                          *)

NoLine == <<"unset">>
Unparsed == [unparsed |-> TRUE]

\* the catalog as load_logs leaves it when it has run to its end on tree t,
\* os.walk yielding the directories in the order dirs
Loaded(t, dirs) ==
    IF TreeAt(t).isdir
    THEN [entries |-> SortByTimestamp(Walk(TreeAt(t), dirs)),
          walked |-> WalkedFiles(TreeAt(t), dirs), tree |-> t]
    ELSE [entries |-> <<>>, walked |-> <<>>, tree |-> t]

\* after log_manager = LogManager(LOG_DIR); log_manager.load_logs() (lines
\* 156-157): the server starts to serve with one complete load behind it
Init ==
    /\ tree \in Trees
    /\ \E dirs \in WalkOrders(TreeAt(tree)) : build = Loaded(tree, dirs)
    /\ entries = build.entries
    /\ index_by_id = BuildIndex(build.entries)
    /\ load_pc = "idle"
    /\ prev = NoPrev
    /\ stats_pc = "idle"
    /\ stats_total = 0
    /\ stats_levels = <<>>
    /\ resp = None
    /\ line = NoLine
    /\ parsed = Unparsed

\* a thread that reloads, the environment, and a client of /logs/stats and
\* /logs/<id>
Next ==
    \/ ChangeTree
    \/ LoadMissingEntries
    \/ LoadMissingIndex
    \/ LoadBuild
    \/ PublishEntries
    \/ PublishIndex
    \/ GetLogById
    \/ StatsTotal
    \/ StatsLevels
    \/ StatsComponents
    \/ Deliver

Spec == Init /\ [][Next]_vars

\* the three handlers with no reload running; get_logs reads self.entries
\* once, so a reload beside it would show it one published list or the other
ServingNext ==
    \/ GetLogs
    \/ GetLogById
    \/ StatsTotal
    \/ StatsLevels
    \/ StatsComponents
    \/ Deliver

SpecServing == Init /\ [][ServingNext]_vars

\* the raw lines handed to parse_line
FirstFields ==
    {TsNoon, <<"2", "0", "2", "4", "-", "0", "2", "-", "2", "9", " ", "2", "3", ":", "5", "9", ":", "5", "9">>, <<"2", "0", "2", "5", "-", "5", "-", "7", " ", "1", ":", "2", ":", "3">>, <<" ", "2", "0", "2", "5", "-", "0", "5", "-", "0", "7", " ", "1", "0", ":", "0", "0", ":", "0", "0", " ">>,
     <<"2", "0", "2", "5", "-", "0", "5", "-", "0", "7", " ", " ", "1", "0", ":", "0", "0", ":", "0", "0">>, <<"2", "0", "2", "5", "-", "0", "2", "-", "3", "0", " ", "1", "0", ":", "0", "0", ":", "0", "0">>, <<"2", "0", "2", "5", "-", "1", "3", "-", "0", "1", " ", "0", "0", ":", "0", "0", ":", "0", "0">>,
     <<"2", "0", "2", "5", "-", "0", "5", "-", "0", "7", " ", "2", "4", ":", "0", "0", ":", "0", "0">>, <<"2", "0", "2", "5", "-", "0", "5", "-", "0", "7", " ", "1", "0", ":", "0", "0", ":", "6", "0">>, <<"2", "0", "2", "5", "-", "0", "5", "-", "0", "7", " ", "1", "0", ":", "0", "0">>,
     <<"2", "0", "2", "5", "-", "0", "5", "-", "0", "7", " ", "1", "0", ":", "0", "0", ":", "0", "0", "x">>, <<"0", "0", "0", "0", "-", "0", "1", "-", "0", "1", " ", "0", "0", ":", "0", "0", ":", "0", "0">>, <<"n", "o", "t", " ", "a", " ", "l", "o", "g", " ", "l", "i", "n", "e">>, <<>>}
LevelFields == {<<"I", "N", "F", "O">>, <<" ", "i", "n", "f", "o", " ">>, <<>>}
ComponentFields == {<<"A", "u", "t", "h">>, <<" ">>}
MessageFields == {<<"m">>, <<"a", "\t", "b">>, <<" ", "m", "\t">>}
ParseInputs ==
    FirstFields
    \cup {ts \o <<TAB>> \o l : ts \in FirstFields, l \in LevelFields}
    \cup {ts \o <<TAB>> \o l \o <<TAB>> \o c :
             ts \in FirstFields, l \in LevelFields, c \in ComponentFields}
    \cup {MkLine(ts, l, c, m) :
             ts \in FirstFields, l \in LevelFields, c \in ComponentFields, m \in MessageFields}

ParseInit ==
    /\ line \in ParseInputs
    /\ parsed = Unparsed
    /\ tree = 0
    /\ entries = <<>>
    /\ index_by_id = EmptyDict
    /\ load_pc = "idle"
    /\ build = Loaded(0, <<LOG_DIR>>)
    /\ prev = NoPrev
    /\ stats_pc = "idle"
    /\ stats_total = 0
    /\ stats_levels = <<>>
    /\ resp = None

\* LogManager.parse_line(line)
ParseLine ==
    /\ parsed = Unparsed
    /\ parsed' = parse_line(line)
    /\ UNCHANGED <<tree, entries, index_by_id, load_pc, build, prev,
                   stats_pc, stats_total, stats_levels, resp, line>>

\* the caller goes on to its next line
NextLine ==
    /\ parsed # Unparsed
    /\ \E l \in ParseInputs : line' = l
    /\ parsed' = Unparsed
    /\ UNCHANGED <<tree, entries, index_by_id, load_pc, build, prev,
                   stats_pc, stats_total, stats_levels, resp>>

ParseNext ==
    \/ ParseLine
    \/ NextLine

SpecParse == ParseInit /\ [][ParseNext]_vars

-----------------------------------------------------------------------------
(* The properties                                                          *)

Range(s) == {s[k] : k \in 1..Len(s)}

RECURSIVE SumOver(_, _)
SumOver(f, keys) ==
    IF keys = {} THEN 0
    ELSE LET k == CHOOSE x \in keys : TRUE IN f[k] + SumOver(f, keys \ {k})

\* the sum of a Counter's counts
Total(counter) == SumOver(counter, DOMAIN counter)

IsLogs(r) == r # None /\ r.kind = "logs" /\ r.status = 200
IsStats(r) == r # None /\ r.kind = "stats"
IsById(r) == r # None /\ r.kind = "by_id"

LoadCompleted == load_pc = "idle"

\* C1: while load_logs runs beside readers, on either of its paths, the
\* published entries and the published id mapping are of one generation in every
\* state: the mapping is the one built from the published entries, never the
\* new list beside the old mapping or the reverse.
C1_SameGeneration == index_by_id = BuildIndex(entries)

\* what the filter contract asks of a record: every supplied predicate holds,
\* a predicate that is not supplied does not constrain
Matches(e, level, component, start_time, end_time) ==
    /\ level # NoStr => Lower(e.level) = Lower(level)
    /\ component # NoStr => Lower(e.component) = Lower(component)
    /\ start_time # NoTime => TimeLE(start_time, e.timestamp)
    /\ end_time # NoTime => TimeLE(e.timestamp, end_time)

RECURSIVE Where(_, _, _, _, _)
Where(es, level, component, start_time, end_time) ==
    IF es = <<>> THEN <<>>
    ELSE (IF Matches(Head(es), level, component, start_time, end_time)
          THEN <<Head(es)>> ELSE <<>>)
         \o Where(Tail(es), level, component, start_time, end_time)

\* C2: for every catalog and every combination of supplied and omitted
\* predicates, filter_entries returns exactly the records that satisfy all the
\* supplied predicates (level and component case-insensitively, the time bounds
\* inclusive), in the catalog's order; a supplied level or component may be any
\* string a stored record can carry, the empty string included.
C2_FilterExact ==
    IsLogs(resp) =>
        filter_entries(entries, resp.args.level, resp.args.component,
                       parse_query_time(resp.args.start_time),
                       parse_query_time(resp.args.end_time))
          = Where(entries, resp.args.level, resp.args.component,
                  parse_query_time(resp.args.start_time),
                  parse_query_time(resp.args.end_time))

\* the response of the same query for page p
PageOf(r, p) == get_logs(entries, [r.args EXCEPT !.page = IntStr(p)])

RECURSIVE PagesConcat(_, _, _)
PagesConcat(r, p, last) ==
    IF p > last THEN <<>> ELSE PageOf(r, p).body.entries \o PagesConcat(r, p + 1, last)

\* the filtered sequence of the query a response answers, as the handler renders it
FilteredOf(r) ==
    LET f == filter_entries(entries, r.args.level, r.args.component,
                            parse_query_time(r.args.start_time),
                            parse_query_time(r.args.end_time))
    IN  [k \in 1..Len(f) |-> to_dict(f[k])]

\* C3: for a filtered sequence of length N and perPage P >= 1, the slices of
\* pages 1..ceil(N/P) (offset (page-1)*P, at most P long) concatenated in page
\* order are the filtered sequence: no gap, no overlap, only the last page may
\* be shorter than P, and every page reports the total N.
C3_PagesPartition ==
    IsLogs(resp) =>
        LET P == resp.body.per_page
            N == Len(FilteredOf(resp))
            pages == (N + P - 1) \div P
            offset == (resp.body.page - 1) * P
        IN  /\ resp.body.total = N
            /\ resp.body.entries
                 = [k \in 1..(IF offset >= N THEN 0 ELSE Min(P, N - offset)) |->
                        FilteredOf(resp)[offset + k]]
            /\ PagesConcat(resp, 1, pages) = FilteredOf(resp)
            /\ \A p \in 1..pages :
                  /\ PageOf(resp, p).status = 200
                  /\ PageOf(resp, p).body.total = N
                  /\ Len(PageOf(resp, p).body.entries) <= P
                  /\ Len(PageOf(resp, p).body.entries) >= 1
                  /\ p < pages => Len(PageOf(resp, p).body.entries) = P

\* a second page that is the last one and shorter than the page size
C3_Witness ==
    /\ IsLogs(resp)
    /\ resp.body.total = 3
    /\ resp.body.per_page = 2
    /\ resp.body.page = 2
    /\ Len(resp.body.entries) = 1

\* where load_logs met a record: the place of its file in the walk, then its line
FilePos(path) == CHOOSE k \in 1..Len(build.walked) : build.walked[k] = path
MetBefore(a, b) ==
    \/ FilePos(a.file) < FilePos(b.file)
    \/ a.file = b.file /\ a.line_no < b.line_no

\* C4: after every completed load_logs the entries are non-decreasing by
\* timestamp, and two entries of equal timestamp stand in the order in which the
\* load met them (the order of the files processed, then the line).
C4_SortedStable ==
    LoadCompleted =>
        \A i, j \in 1..Len(entries) :
            i < j =>
                /\ TimeLE(entries[i].timestamp, entries[j].timestamp)
                /\ entries[i].timestamp = entries[j].timestamp
                     => MetBefore(entries[i], entries[j])

\* a completed load whose sort moved a record forward and kept a tie between
\* two files in the order met
C4_Witness ==
    /\ LoadCompleted
    /\ \E i, j \in 1..Len(entries) :
          i < j /\ entries[i].timestamp # entries[j].timestamp
                /\ MetBefore(entries[j], entries[i])
    /\ \E i, j \in 1..Len(entries) :
          i < j /\ entries[i].timestamp = entries[j].timestamp
                /\ entries[i].file # entries[j].file

\* C5: load_logs visits the directories, and the files of each, in
\* lexicographic order, so the order of the ids depends only on the tree's
\* content: a load of the tree the previous load read, unmodified, yields the
\* same ids in the same order.
C5_Reproducible ==
    (LoadCompleted /\ prev # NoPrev /\ prev.tree = build.tree) => Ids(entries) = prev.ids

\* C6: a file whose read fails, on open or after some lines, is skipped
\* entirely: the loaded catalog holds no record of it, and holds the records of
\* every file that reads.
C6_FailedFileSkipped ==
    LoadCompleted =>
        \A f \in TreeAt(build.tree).files :
            IF f.fail # NoFail
            THEN \A k \in 1..Len(entries) : entries[k].file # PathJoin(f.dir, f.name)
            ELSE Range(ReadFile(f)) \subseteq Range(entries)

\* the fixed format YYYY-MM-DD HH:MM:SS: four-digit year, month, day, hour,
\* minute and second of two digits each, a date of the calendar, a 24-hour clock
IsFixedFormat(s) ==
    /\ Len(s) = 19
    /\ \A k \in {1, 2, 3, 4, 6, 7, 9, 10, 12, 13, 15, 16, 18, 19} : s[k] \in Digits
    /\ s[5] = "-" /\ s[8] = "-" /\ s[11] = " " /\ s[14] = ":" /\ s[17] = ":"
    /\ LET y == DigitsVal(SubSeq(s, 1, 4))
           m == DigitsVal(SubSeq(s, 6, 7))
           d == DigitsVal(SubSeq(s, 9, 10))
       IN  /\ y >= 1 /\ m \in 1..12 /\ d >= 1 /\ d <= DaysInMonth(y, m)
           /\ DigitsVal(SubSeq(s, 12, 13)) <= 23
           /\ DigitsVal(SubSeq(s, 15, 16)) <= 59
           /\ DigitsVal(SubSeq(s, 18, 19)) <= 59

TabCount(s) == Cardinality({k \in 1..Len(s) : s[k] = TAB})

\* the text after the n-th tab of s
RECURSIVE AfterTab(_, _)
AfterTab(s, n) == IF n = 0 THEN s ELSE AfterTab(SubSeq(s, Find(s, TAB, 1) + 1, Len(s)), n - 1)

\* the n-th tab-delimited field of s, for a field that a tab ends
FieldAt(s, n) ==
    LET rest == AfterTab(s, n - 1) IN
    IF Find(rest, TAB, 1) = 0 THEN rest ELSE SubSeq(rest, 1, Find(rest, TAB, 1) - 1)

\* C7: parse_line returns None exactly when the line has fewer than three
\* tabs or its first field is not a timestamp in the fixed format; otherwise it
\* returns the timestamp, the trimmed second and third fields, and the trimmed
\* remainder after the third tab with its inner tabs kept.
C7_MalformedExactly ==
    parsed # Unparsed =>
        /\ parsed = None <=> (TabCount(line) < 3 \/ ~IsFixedFormat(FieldAt(line, 1)))
        /\ parsed # None =>
              /\ StrfTime(parsed.timestamp) = FieldAt(line, 1)
              /\ parsed.level = Strip(FieldAt(line, 2))
              /\ parsed.component = Strip(FieldAt(line, 3))
              /\ parsed.message = Strip(AfterTab(line, 3))

CountOf(vals, k) == Cardinality({i \in 1..Len(vals) : vals[i] = k})

\* C8: with no load running, stats returns the number of records as total,
\* for each level string exactly as stored the number of records that carry it
\* (levels that differ in case are separate keys), likewise for components; a
\* key without records is absent, and each mapping's counts sum to total.
C8_StatsCounts ==
    IsStats(resp) =>
        /\ resp.body.total = Len(entries)
        /\ DOMAIN resp.body.by_level = Range(LevelsOf(entries))
        /\ \A k \in DOMAIN resp.body.by_level :
              resp.body.by_level[k] = CountOf(LevelsOf(entries), k)
        /\ DOMAIN resp.body.by_component = Range(ComponentsOf(entries))
        /\ \A k \in DOMAIN resp.body.by_component :
              resp.body.by_component[k] = CountOf(ComponentsOf(entries), k)
        /\ Total(resp.body.by_level) = resp.body.total
        /\ Total(resp.body.by_component) = resp.body.total

\* stats over a catalog that stores one level in two spellings
C8_Witness ==
    /\ IsStats(resp)
    /\ resp.body.total = 3
    /\ \E a, b \in DOMAIN resp.body.by_level : a # b /\ Lower(a) = Lower(b)

\* C9: after any sequence of completed loads, none running, GET /logs/<id>
\* answers with a record of that id that is in the current entries if and only
\* if some current entry has the id, and with 404 otherwise; an id only a
\* previous generation had is not found.
C9_GetById ==
    [][(resp = None /\ IsById(resp') /\ load_pc = "idle") =>
          IF \E k \in 1..Len(entries) : entries[k].id = resp'.log_id
          THEN /\ resp'.status = 200
               /\ resp'.body.id = resp'.log_id
               /\ \E k \in 1..Len(entries) : to_dict(entries[k]) = resp'.body
          ELSE resp'.status = 404]_vars

\* a 404 for an id that the replaced generation had and the current one has not
C9_Witness ==
    /\ LoadCompleted
    /\ entries # <<>>
    /\ IsById(resp)
    /\ resp.status = 404
    /\ resp.log_id \in Range(prev.ids)
    /\ resp.log_id \notin Range(Ids(entries))

\* C10: a stats call that runs beside a reload computes its result from one
\* generation of the entries: total, by_level and by_component describe the
\* same list, so the counts of each mapping sum to total.
C10_StatsOneGeneration ==
    IsStats(resp) =>
        /\ Total(resp.body.by_level) = resp.body.total
        /\ Total(resp.body.by_component) = resp.body.total


====
